---- MODULE Spec2Model ----
(***************************************************************************)
(* Model of berita.py: the fetcher (fetch_html), the parser                *)
(* (parse_articles) and the two request handlers (scrape_berita,           *)
(* scrape_berita_all) served by one FastAPI application.                   *)
(*                                                                         *)
(* Both handlers are `async def` and never await: a request runs to its    *)
(* response before the event loop starts the next one, so the model serves *)
(* one request at a time.                                                  *)
(***************************************************************************)
EXTENDS Integers, Sequences, FiniteSets, TLC

VARIABLES
    site,          \* upstream: listing page n |-> what a GET of ?page=n meets
    tail,          \* upstream: what pages beyond the last listing page answer
    pc,            \* position of the request being served
    endpoint,      \* "single" (/scrape-berita), "all" (/scrape-berita/all)
    page,          \* the page query parameter of /scrape-berita
    scrape_url,    \* local of both handlers
    html_content,  \* local of both handlers (parse_articles: its argument html)
    articles,      \* local of both handlers (parse_articles: its result)
    all_articles,  \* local of scrape_berita_all
    page_number,   \* local of scrape_berita_all
    retval,        \* the value the handler returned
    response,      \* the HTTP response sent for the last request
    inflight,      \* GETs issued and not yet answered
    getLog,        \* URLs of the GETs issued for the request being served
    fetchCalls,    \* calls of fetch_html made for the request being served
    served         \* page |-> response of the last completed /scrape-berita?page=

vars == << site, tail, pc, endpoint, page, scrape_url, html_content, articles,
           all_articles, page_number, retval, response, inflight, getLog,
           fetchCalls, served >>

-----------------------------------------------------------------------------
(* Bounds                                                                  *)

MaxPages == 2

MaxContainers == 2

\* the all-pages loop has no upper bound; the model stops it here
PageCap == MaxPages + 2

-----------------------------------------------------------------------------
(* Python values.  A str is a sequence of atoms: " " is whitespace, "</i>" *)
(* is that literal four-character substring, any other atom is a run of    *)
(* characters holding neither.                                             *)

None == [type |-> "NoneType", chars |-> << >>]

Str(s) == [type |-> "str", chars |-> s]

\* the key is not in the dict
Missing == [type |-> "missing", chars |-> << >>]

\* Python truth value of a str or None: `if html:` / `if not html_content:`
Truthy(v) == v.type = "str" /\ v.chars # << >>

RECURSIVE LStrip(_)
LStrip(s) == IF s = << >> THEN s
             ELSE IF Head(s) = " " THEN LStrip(Tail(s)) ELSE s

RECURSIVE RStrip(_)
RStrip(s) == IF s = << >> THEN s
             ELSE IF s[Len(s)] = " " THEN RStrip(SubSeq(s, 1, Len(s) - 1)) ELSE s

\* str.strip()
Strip(s) == RStrip(LStrip(s))

\* str.split(sep)[-1]: what follows the last occurrence of sep, all of s
\* when sep does not occur
SplitLast(s, sep) ==
    LET at == {i \in 1..Len(s) : s[i] = sep}
    IN IF at = {} THEN s
       ELSE SubSeq(s, (CHOOSE i \in at : \A j \in at : j <= i) + 1, Len(s))

-----------------------------------------------------------------------------
(* Parsed HTML.  A node is what css_first returns: absent (None) or an     *)
(* element with its text nodes in document order and its attributes; a     *)
(* container is one div.post-content with the first match of each of the   *)
(* three selectors.                                                        *)

NoNode == [present |-> FALSE, nodes |-> << >>, href |-> Missing]

Node(nodes, href) == [present |-> TRUE, nodes |-> nodes, href |-> href]

\* Node.text(strip=True): every text node stripped, joined with no separator
RECURSIVE TextStrip(_)
TextStrip(nodes) == IF nodes = << >> THEN << >>
                    ELSE Strip(Head(nodes)) \o TextStrip(Tail(nodes))

\* an HTML document with these containers; the empty response body
Html(divs) == [type |-> "str", chars |-> <<"<html>">>, divs |-> divs]

EmptyBody == [type |-> "str", chars |-> << >>, divs |-> << >>]

NoHtml == [type |-> "NoneType", chars |-> << >>, divs |-> << >>]

-----------------------------------------------------------------------------
(* parse_articles                                                          *)

Returned(v) == [raised |-> FALSE, value |-> v]

Raised(v) == [raised |-> TRUE, value |-> v]

\* "title": title_element.text(strip=True) if title_element else "No Title"
TitleOf(c) == IF c.a.present THEN Str(TextStrip(c.a.nodes))
              ELSE Str(<<"No Title">>)

\* "link": title_element.attributes['href'] if title_element else "#"
\* attributes is a dict: a key that is not there raises KeyError, an
\* attribute written without a value maps to None
LinkOf(c) == IF c.a.present
             THEN IF c.a.href = Missing THEN Raised(Missing)
                  ELSE Returned(c.a.href)
             ELSE Returned(Str(<<"#">>))

\* "date": date_element.text(strip=True).split('</i>')[-1].strip()
\*         if date_element else "No Date"
DateOf(c) == IF c.span.present
             THEN Str(Strip(SplitLast(TextStrip(c.span.nodes), "</i>")))
             ELSE Str(<<"No Date">>)

\* "description": description_element.text(strip=True)
\*                if description_element else "No Description"
DescriptionOf(c) == IF c.p.present THEN Str(TextStrip(c.p.nodes))
                    ELSE Str(<<"No Description">>)

\* the dict display of one container; a raise leaves no dict
ArticleData(c) ==
    IF LinkOf(c).raised THEN Raised(<< >>)
    ELSE Returned([title |-> TitleOf(c), link |-> LinkOf(c).value,
                   date |-> DateOf(c), description |-> DescriptionOf(c)])

\* a list that outlives the call (a module-level list, a mutable default
\* argument) still holds what an earlier request put in it
articles_data_shared == served[1].body

\* articles_data: List[Dict[str, str]] = []
articles_data == << >>

\* for article_element in article_elements: ... articles_data.append(...)
RECURSIVE ParseLoop(_, _)
ParseLoop(divs, acc) ==
    IF divs = << >> THEN Returned(acc)
    ELSE LET d == ArticleData(Head(divs))
         IN IF d.raised THEN Raised(<< >>)
            ELSE ParseLoop(Tail(divs), Append(acc, d.value))

parse_articles(html) ==
    IF Truthy(html) THEN ParseLoop(html.divs, articles_data)
    ELSE Returned(articles_data)

-----------------------------------------------------------------------------
(* The upstream site and fetch_html                                        *)

BASE_URL == "https://sman8ptk.sch.id/berita"

\* f"{BASE_URL}?page={n}"
Url(n) == [base |-> BASE_URL, query |-> n]

\* what requests.get meets: an exception of the transport, or a response
TransportError == [kind |-> "error", status |-> 0, text |-> NoHtml]

Http(status, text) == [kind |-> "http", status |-> status, text |-> text]

\* Response.raise_for_status() raises HTTPError unless 200 <= status < 400
StatusOk(status) == 200 <= status /\ status < 400

\* without the except clause the exception reaches the handler
fetch_html_uncaught(resp) ==
    IF resp.kind = "error" THEN Raised(NoHtml)
    ELSE IF resp.status < 200 \/ resp.status >= 400 THEN Raised(NoHtml)
    ELSE Returned(resp.text)

\* try: response = requests.get(url); response.raise_for_status();
\*      return response.text
\* except RequestException: print(...); return None
fetch_html(resp) ==
    IF resp.kind = "error" THEN Returned(NoHtml)
    ELSE IF ~StatusOk(resp.status) THEN Returned(NoHtml)
    ELSE Returned(resp.text)

Elem(s) == Node(<< s >>, Missing)

FullArticle ==
    [a |-> Node(<< <<" ", "Judul", " ">> >>, Str(<<"/berita/1">>)),
     span |-> Elem(<<"12 March 2024">>), p |-> Elem(<<"Isi">>)]

OtherArticle ==
    [a |-> Node(<< <<"Lain">> >>, Str(<<"/berita/2">>)),
     span |-> Elem(<<" ", "13 March 2024">>), p |-> NoNode]

BareArticle == [a |-> NoNode, span |-> NoNode, p |-> NoNode]

\* <h3><a>Judul</a></h3>: the anchor has no href attribute
NoHrefArticle ==
    [a |-> Node(<< <<"Judul">> >>, Missing), span |-> NoNode,
     p |-> Elem(<<"Isi">>)]

\* <h3><a href>Judul</a></h3>: the attribute has no value
ValuelessHrefArticle ==
    [a |-> Node(<< <<"Judul">> >>, None),
     span |-> Elem(<<"12 March 2024">>), p |-> Elem(<<"Isi">>)]

\* the answers a listing page of the modelled site may give
SitePages ==
    { TransportError,
      Http(404, Html(<< FullArticle >>)),
      Http(200, EmptyBody),
      Http(200, Html(<< >>)),
      Http(200, Html(<< FullArticle >>)),
      Http(200, Html(<< BareArticle, OtherArticle >>)),
      Http(200, Html(<< NoHrefArticle >>)),
      Http(200, Html(<< ValuelessHrefArticle >>)) }

\* what a page past the last listing page answers: 404, an empty listing,
\* or the last listing page again
TailModes == {"notfound", "emptylisting", "repeatlast"}

Upstream(url) ==
    IF url.query \in 1..MaxPages THEN site[url.query]
    ELSE IF tail = "notfound" THEN Http(404, Html(<< >>))
    ELSE IF tail = "emptylisting" THEN Http(200, Html(<< >>))
    ELSE site[MaxPages]

-----------------------------------------------------------------------------
(* Requests                                                                *)

\* values of the page query parameter the clients send
ReqPages == (-1)..MaxPages

NoResponse == [status |-> 0, body |-> << >>]

\* response_model=List[Dict[str, str]]: every value of every dict is a str
IsStrDict(d) ==
    /\ d.title.type = "str" /\ d.link.type = "str"
    /\ d.date.type = "str" /\ d.description.type = "str"

ValidResponseModel(list) == \A i \in 1..Len(list) : IsStrDict(list[i])

\* what FastAPI sends for a handler that returned list / that raised
ResponseFor(raised, list) ==
    IF raised THEN [status |-> 500, body |-> << >>]
    ELSE IF ValidResponseModel(list) THEN [status |-> 200, body |-> list]
    ELSE [status |-> 500, body |-> << >>]

Init ==
    /\ site \in [1..MaxPages -> SitePages]
    /\ tail \in TailModes
    /\ pc = "idle"
    /\ endpoint = "none"
    /\ page = 1
    /\ scrape_url = Url(0)
    /\ html_content = NoHtml
    /\ articles = << >>
    /\ all_articles = << >>
    /\ page_number = 0
    /\ retval = << >>
    /\ response = NoResponse
    /\ inflight = {}
    /\ getLog = << >>
    /\ fetchCalls = 0
    /\ served = [n \in 1..MaxPages |-> NoResponse]

upstream == << site, tail >>

locals == << scrape_url, html_content, articles, all_articles, page_number >>

\* a client sends GET /scrape-berita?page=p
ReceiveSingle ==
    /\ pc \in {"idle", "responded"}
    /\ endpoint' = "single"
    /\ page' \in ReqPages
    /\ pc' = "validate"
    /\ response' = NoResponse
    /\ getLog' = << >>
    /\ fetchCalls' = 0
    /\ UNCHANGED << upstream, locals, retval, inflight, served >>

\* a client sends GET /scrape-berita/all (it takes no parameter: page is
\* left at the default of Query)
ReceiveAll ==
    /\ pc \in {"idle", "responded"}
    /\ endpoint' = "all"
    /\ page' = 1
    /\ pc' = "validate"
    /\ response' = NoResponse
    /\ getLog' = << >>
    /\ fetchCalls' = 0
    /\ UNCHANGED << upstream, locals, retval, inflight, served >>

\* Query(1, ...) with no ge=1
PageValidAny(p) == p \in Int

\* page: int = Query(1, ..., ge=1)
PageValid(p) == p >= 1

\* the parameter fails validation: 422, the handler is not called
Reject ==
    /\ pc = "validate"
    /\ endpoint = "single" /\ ~PageValid(page)
    /\ response' = [status |-> 422, body |-> << >>]
    /\ pc' = "responded"
    /\ UNCHANGED << upstream, endpoint, page, locals, retval, inflight, getLog,
                    fetchCalls, served >>

\* the handler is called
Dispatch ==
    /\ pc = "validate"
    /\ endpoint = "single" => PageValid(page)
    /\ pc' = IF endpoint = "single" THEN "s_call" ELSE "a_init"
    /\ UNCHANGED << upstream, endpoint, page, locals, retval, response,
                    inflight, getLog, fetchCalls, served >>

-----------------------------------------------------------------------------
(* fetch_html, as both handlers call it                                    *)

\* response = requests.get(url): the GET is issued
FetchGet ==
    /\ pc = "f_get"
    /\ inflight' = inflight \cup {scrape_url}
    /\ getLog' = Append(getLog, scrape_url)
    /\ pc' = "f_wait"
    /\ UNCHANGED << upstream, endpoint, page, locals, retval, response,
                    fetchCalls, served >>

\* the GET is answered; fetch_html returns to the handler that called it
FetchReturn ==
    /\ pc = "f_wait"
    /\ inflight' = inflight \ {scrape_url}
    /\ LET out == fetch_html(Upstream(scrape_url))
       IN IF out.raised
          THEN pc' = "raised" /\ UNCHANGED html_content
          ELSE /\ html_content' = out.value
               /\ pc' = IF endpoint = "single" THEN "s_check" ELSE "a_check"
    /\ UNCHANGED << upstream, endpoint, page, scrape_url, articles,
                    all_articles, page_number, retval, response, getLog,
                    fetchCalls, served >>

-----------------------------------------------------------------------------
(* scrape_berita                                                           *)

\* scrape_url = f"{BASE_URL}?page={page}"; html_content = fetch_html(scrape_url)
SingleCallFetch ==
    /\ pc = "s_call"
    /\ scrape_url' = Url(page)
    /\ fetchCalls' = fetchCalls + 1
    /\ pc' = "f_get"
    /\ UNCHANGED << upstream, endpoint, page, html_content, articles,
                    all_articles, page_number, retval, response, inflight,
                    getLog, served >>

\* if html_content: articles = parse_articles(html_content); return articles
\* else: return []
scrape_berita_result(html) ==
    IF Truthy(html) THEN parse_articles(html) ELSE Returned(<< >>)

SingleFinish ==
    /\ pc = "s_check"
    /\ LET out == scrape_berita_result(html_content)
       IN IF out.raised
          THEN pc' = "raised" /\ UNCHANGED << articles, retval >>
          ELSE /\ articles' = IF Truthy(html_content) THEN out.value ELSE articles
               /\ retval' = out.value
               /\ pc' = "returned"
    /\ UNCHANGED << upstream, endpoint, page, scrape_url, html_content,
                    all_articles, page_number, response, inflight, getLog,
                    fetchCalls, served >>

-----------------------------------------------------------------------------
(* scrape_berita_all                                                       *)

\* page_number = 1
FirstPage == 1

\* page_number += 2
NextPageSkip(n) == n + 2

\* page_number += 1
NextPage(n) == n + 1

\* all_articles = articles + all_articles
ExtendFront(list, more) == more \o list

\* all_articles = articles
ExtendReplace(list, more) == more

\* all_articles.extend(articles)
Extend(list, more) == list \o more

\* if not html_content: break
FetchFailed(html) == ~Truthy(html)

\* if articles is None: break   (parse_articles never returns None)
PageEmptyNever(list) == list # list

\* if not articles: break
PageEmpty(list) == Len(list) = 0

\* all_articles = []; page_number = 1
AllInit ==
    /\ pc = "a_init"
    /\ all_articles' = << >>
    /\ page_number' = FirstPage
    /\ pc' = "a_call"
    /\ UNCHANGED << upstream, endpoint, page, scrape_url, html_content,
                    articles, retval, response, inflight, getLog, fetchCalls,
                    served >>

\* while True: scrape_url = ...; html_content = fetch_html(scrape_url)
AllCallFetch ==
    /\ pc = "a_call"
    /\ page_number <= PageCap
    /\ scrape_url' = Url(page_number)
    /\ fetchCalls' = fetchCalls + 1
    /\ pc' = "f_get"
    /\ UNCHANGED << upstream, endpoint, page, html_content, articles,
                    all_articles, page_number, retval, response, inflight,
                    getLog, served >>

\* if not html_content: break ... return all_articles
AllBreakFetch ==
    /\ pc = "a_check"
    /\ FetchFailed(html_content)
    /\ retval' = all_articles
    /\ pc' = "returned"
    /\ UNCHANGED << upstream, endpoint, page, locals, response, inflight,
                    getLog, fetchCalls, served >>

\* articles = parse_articles(html_content)
AllParse ==
    /\ pc = "a_check"
    /\ ~FetchFailed(html_content)
    /\ LET out == parse_articles(html_content)
       IN IF out.raised
          THEN pc' = "raised" /\ UNCHANGED articles
          ELSE articles' = out.value /\ pc' = "a_articles"
    /\ UNCHANGED << upstream, endpoint, page, scrape_url, html_content,
                    all_articles, page_number, retval, response, inflight,
                    getLog, fetchCalls, served >>

\* if not articles: break ... return all_articles
AllBreakEmpty ==
    /\ pc = "a_articles"
    /\ PageEmpty(articles)
    /\ retval' = all_articles
    /\ pc' = "returned"
    /\ UNCHANGED << upstream, endpoint, page, locals, response, inflight,
                    getLog, fetchCalls, served >>

\* all_articles.extend(articles); page_number += 1
AllExtend ==
    /\ pc = "a_articles"
    /\ ~PageEmpty(articles)
    /\ all_articles' = Extend(all_articles, articles)
    /\ page_number' = NextPage(page_number)
    /\ pc' = "a_call"
    /\ UNCHANGED << upstream, endpoint, page, scrape_url, html_content,
                    articles, retval, response, inflight, getLog, fetchCalls,
                    served >>

-----------------------------------------------------------------------------
(* The response                                                            *)

\* FastAPI serialises what the handler returned, or answers 500 for what it
\* raised; the handler's frame is gone
Respond ==
    /\ pc \in {"returned", "raised"}
    /\ response' = ResponseFor(pc = "raised", retval)
    /\ served' = IF endpoint = "single"
                 THEN [served EXCEPT ![page] = response']
                 ELSE served
    /\ pc' = "responded"
    /\ scrape_url' = Url(0)
    /\ html_content' = NoHtml
    /\ articles' = << >>
    /\ all_articles' = << >>
    /\ page_number' = 0
    /\ retval' = << >>
    /\ UNCHANGED << upstream, endpoint, page, inflight, getLog, fetchCalls >>

HandlerStep ==
    \/ Reject \/ Dispatch \/ FetchGet \/ FetchReturn
    \/ SingleCallFetch \/ SingleFinish
    \/ AllInit \/ AllCallFetch \/ AllBreakFetch \/ AllParse
    \/ AllBreakEmpty \/ AllExtend \/ Respond

Next == ReceiveSingle \/ ReceiveAll \/ HandlerStep

Spec == Init /\ [][Next]_vars

\* The service under /scrape-berita/all requests only.  A handler that was
\* called runs on: nothing in it waits for another request, and a GET ends
\* with an answer or with an exception.
AllStep ==
    \/ Dispatch \/ FetchGet \/ FetchReturn
    \/ AllInit \/ AllCallFetch \/ AllBreakFetch \/ AllParse
    \/ AllBreakEmpty \/ AllExtend \/ Respond

AllNext == ReceiveAll \/ AllStep

FairSpec == Init /\ [][AllNext]_vars /\ WF_vars(AllStep)

-----------------------------------------------------------------------------
(* parse_articles on its own: the inputs of a direct call                  *)

ParserAnchors ==
    { NoNode,
      Node(<< <<"Judul">> >>, Str(<<"/berita/1">>)),
      Node(<< <<" ", "Judul", " ">>, <<" ", "Baru">> >>, Str(<<"/berita/2">>)),
      Node(<< <<"Judul">> >>, Missing),
      Node(<< <<"Judul">> >>, None) }

ParserSpans ==
    { NoNode,
      Elem(<<"12 March 2024">>),
      Elem(<<" ", "12 March 2024", " ">>),
      Elem(<<"x", "</i>", " ", "12 March 2024">>) }

ParserParagraphs == { NoNode, Elem(<<" ", "Isi", " ", "berita", " ">>) }

ParserContainers ==
    [a : ParserAnchors, span : ParserSpans, p : ParserParagraphs]

ParserInputs ==
    {NoHtml, EmptyBody} \cup
    { Html(divs) : divs \in UNION { [1..n -> ParserContainers] :
                                      n \in 0..MaxContainers } }

ParserInit ==
    /\ site = [n \in 1..MaxPages |-> TransportError]
    /\ tail = "notfound"
    /\ pc = "p_call"
    /\ endpoint = "none"
    /\ page = 1
    /\ scrape_url = Url(0)
    /\ html_content \in ParserInputs
    /\ articles = << >>
    /\ all_articles = << >>
    /\ page_number = 0
    /\ retval = << >>
    /\ response = NoResponse
    /\ inflight = {}
    /\ getLog = << >>
    /\ fetchCalls = 0
    /\ served = [n \in 1..MaxPages |-> NoResponse]

\* articles = parse_articles(html)
ParserCall ==
    /\ pc = "p_call"
    /\ LET out == parse_articles(html_content)
       IN IF out.raised
          THEN pc' = "p_raised" /\ UNCHANGED articles
          ELSE articles' = out.value /\ pc' = "p_returned"
    /\ UNCHANGED << upstream, endpoint, page, scrape_url, html_content,
                    all_articles, page_number, retval, response, inflight,
                    getLog, fetchCalls, served >>

ParserSpec == ParserInit /\ [][ParserCall]_vars

-----------------------------------------------------------------------------
(* What the upstream holds, page by page                                   *)

\* the GET of page n meets a transport error or a non-success status
UpstreamFails(n) ==
    LET r == Upstream(Url(n))
    IN r.kind = "error" \/ r.status < 200 \/ r.status >= 400

\* what fetch_html hands the handler for page n, and what it parses to
Fetched(n) == fetch_html(Upstream(Url(n))).value

PageParse(n) == parse_articles(Fetched(n))

\* page n fetches successfully and parses to a non-empty sequence
PageGood(n) ==
    /\ Truthy(Fetched(n))
    /\ ~PageParse(n).raised
    /\ PageParse(n).value # << >>

\* page n fails to fetch or parses to an empty sequence
PageStops(n) ==
    \/ ~Truthy(Fetched(n))
    \/ ~PageParse(n).raised /\ PageParse(n).value = << >>

\* articles(page 1) followed by ... followed by articles(page n)
RECURSIVE ConcatPages(_)
ConcatPages(n) == IF n <= 0 THEN << >>
                  ELSE ConcatPages(n - 1) \o PageParse(n).value

AllTerminated == endpoint = "all" /\ pc \in {"returned", "raised"}

-----------------------------------------------------------------------------
\* C1: when pages 1..k-1 each fetch successfully and parse to a non-empty
\* sequence and page k fails to fetch or parses to an empty sequence,
\* scrape_berita_all returns exactly articles(page 1) ++ ... ++
\* articles(page k-1), every page's articles in their per-page order.
C1_ConcatInPageOrder ==
    (endpoint = "all" /\ pc = "returned") =>
        \A k \in 1..PageCap :
            ((\A j \in 1..(k - 1) : PageGood(j)) /\ PageStops(k))
                => retval = ConcatPages(k - 1)

\* two non-empty pages, then a failing fetch: three articles returned
C1_Witness ==
    /\ endpoint = "all" /\ pc = "returned"
    /\ PageGood(1) /\ PageGood(2) /\ UpstreamFails(3)
    /\ Len(PageParse(1).value) = 1 /\ Len(PageParse(2).value) = 2
    /\ Len(retval) = 3

-----------------------------------------------------------------------------
\* listing page n is served and holds at least one article container
NonEmptyListing(n) ==
    /\ ~UpstreamFails(n)
    /\ Truthy(Upstream(Url(n)).text)
    /\ Upstream(Url(n)).text.divs # << >>

\* the site has exactly N non-empty pages, then an empty or failing one
HasPages(N) ==
    /\ \A j \in 1..N : NonEmptyListing(j)
    /\ ~NonEmptyListing(N + 1)

\* the number of those non-empty pages, when the site ends so
SiteEnds == \E N \in 0..(PageCap - 1) : HasPages(N)

NPages == IF SiteEnds THEN CHOOSE N \in 0..(PageCap - 1) : HasPages(N) ELSE 0

-----------------------------------------------------------------------------
\* C3: for every page >= 1, scrape_berita never fails: whatever the
\* upstream does, the handler returns an array and the request never ends
\* in an error.
C3_SinglePageNeverFails ==
    (endpoint = "single" /\ page >= 1) =>
        /\ pc # "raised"
        /\ pc = "responded" => response.status = 200

-----------------------------------------------------------------------------
\* the placeholders
NoTitle == Str(<<"No Title">>)

NoLink == Str(<<"#">>)

NoDate == Str(<<"No Date">>)

NoDescription == Str(<<"No Description">>)

\* C4: every record parse_articles produces holds a string in each of
\* title, link, date and description, the placeholder where the HTML node
\* is missing, never a non-string (null) value.
C4_FieldsAreStrings ==
    pc = "p_returned" =>
        \A i \in 1..Len(articles) :
            /\ IsStrDict(articles[i])
            /\ i <= Len(html_content.divs) =>
                 LET c == html_content.divs[i]
                 IN /\ ~c.a.present => /\ articles[i].title = NoTitle
                                        /\ articles[i].link = NoLink
                    /\ ~c.span.present => articles[i].date = NoDate
                    /\ ~c.p.present => articles[i].description = NoDescription

-----------------------------------------------------------------------------
\* C7: for every container, whichever of its three sub-elements are
\* missing, the record is produced; a missing sub-element yields its
\* placeholder and a present one is extracted normally (trimmed text, the
\* href, the text after the last "</i>" trimmed).
C7_PerFieldPlaceholders ==
    (pc \in {"p_returned", "p_raised"} /\ Truthy(html_content)) =>
        /\ pc = "p_returned"
        /\ Len(articles) = Len(html_content.divs)
        /\ \A i \in 1..Len(articles) :
             LET c == html_content.divs[i]
                 r == articles[i]
             IN /\ r.title = IF c.a.present THEN Str(TextStrip(c.a.nodes))
                              ELSE NoTitle
                /\ r.link = IF c.a.present THEN c.a.href ELSE NoLink
                /\ r.date = IF c.span.present
                             THEN Str(Strip(SplitLast(TextStrip(c.span.nodes),
                                                      "</i>")))
                             ELSE NoDate
                /\ r.description = IF c.p.present
                                    THEN Str(TextStrip(c.p.nodes))
                                    ELSE NoDescription

-----------------------------------------------------------------------------
\* C5: a /scrape-berita request with page < 1 is rejected before any
\* fetch: the handler is never entered, fetch_html is never called, no GET
\* is issued, and the answer is the validation failure, never an array.
C5_RejectedBeforeFetch ==
    (endpoint = "single" /\ page < 1) =>
        /\ pc \in {"validate", "responded"}
        /\ fetchCalls = 0 /\ getLog = << >> /\ inflight = {}
        /\ pc = "responded" => response.status = 422 /\ response.body = << >>

C5_Witness ==
    /\ endpoint = "single" /\ page < 1
    /\ pc = "responded" /\ response.status = 422

-----------------------------------------------------------------------------
\* the page of the GET issued last
LastGet == getLog[Len(getLog)].query

\* C6: a transport error or non-success status leaves fetch_html's caller
\* with None, never with an exception; every call of fetch_html issues
\* exactly one GET; scrape_berita then returns [] and scrape_berita_all
\* returns what it accumulated from the pages before ([] when the first
\* fetch fails).
C6_FailureIsAbsence ==
    /\ fetchCalls = Len(getLog) + (IF pc = "f_get" THEN 1 ELSE 0)
    /\ (getLog # << >> /\ UpstreamFails(LastGet)) =>
          /\ pc \in {"s_check", "a_check"} => html_content = NoHtml
          /\ pc # "raised"
          /\ (pc = "returned" /\ endpoint = "single") => retval = << >>
          /\ (pc = "responded" /\ endpoint = "single") =>
                response = [status |-> 200, body |-> << >>]
          /\ (pc = "returned" /\ endpoint = "all") =>
                /\ retval = ConcatPages(Len(getLog) - 1)
                /\ Len(getLog) = 1 => retval = << >>
          /\ (pc = "responded" /\ endpoint = "all" /\ Len(getLog) = 1) =>
                response = [status |-> 200, body |-> << >>]

\* the second fetch of scrape_berita_all fails: page 1's articles returned
C6_Witness ==
    /\ endpoint = "all" /\ pc = "returned"
    /\ Len(getLog) = 2 /\ UpstreamFails(2)
    /\ retval # << >>

-----------------------------------------------------------------------------
\* C8: a /scrape-berita?page=n request ends as every earlier request for
\* the same page ended, whatever requests of either endpoint were served in
\* between.
C8_SinglePageIdempotent ==
    (endpoint = "single" /\ pc \in {"returned", "raised"}) =>
        (served[page] # NoResponse =>
            ResponseFor(pc = "raised", retval) = served[page])

\* a repeated request that returns articles again
C8_Witness ==
    /\ endpoint = "single" /\ pc = "returned"
    /\ served[page].status = 200
    /\ retval # << >>

-----------------------------------------------------------------------------
\* C9: within one /scrape-berita/all request the i-th GET is for page i,
\* at most one GET is outstanding, page i+1 is fetched only after page i
\* fetched successfully, parsed to a non-empty sequence and was appended,
\* and nothing is fetched after the first failing or empty page.
C9_SequentialPages ==
    endpoint = "all" =>
        /\ \A i \in 1..Len(getLog) : getLog[i] = Url(i)
        /\ Cardinality(inflight) <= 1
        /\ pc = "f_wait" <=> inflight # {}
        /\ \A i \in 1..(Len(getLog) - 1) : PageGood(i)
        /\ pc \in {"f_wait", "a_check", "a_articles"} =>
              /\ page_number = Len(getLog)
              /\ all_articles = ConcatPages(Len(getLog) - 1)
        /\ pc \in {"a_call", "f_get"} =>
              /\ page_number = Len(getLog) + 1
              /\ all_articles = ConcatPages(Len(getLog))
        /\ pc \in {"returned", "raised"} => ~PageGood(Len(getLog))

\* the GET of page 3 is outstanding
C9_Witness ==
    /\ endpoint = "all" /\ pc = "f_wait"
    /\ Len(getLog) = 3 /\ inflight = {Url(3)}

-----------------------------------------------------------------------------
\* scrape_berita(page=n) against the same upstream
SinglePage(n) == scrape_berita_result(Fetched(n))

SingleEmpty(n) == ~SinglePage(n).raised /\ SinglePage(n).value = << >>

\* k is the smallest page for which scrape_berita returns an empty array
FirstEmpty(k) == SingleEmpty(k) /\ \A j \in 1..(k - 1) : ~SingleEmpty(j)

RECURSIVE ConcatSingle(_)
ConcatSingle(n) == IF n <= 0 THEN << >>
                   ELSE ConcatSingle(n - 1) \o SinglePage(n).value

\* C10: scrape_berita_all returns only if there is a smallest page k for
\* which scrape_berita returns an empty array, and then it returns
\* scrape_berita(1) ++ ... ++ scrape_berita(k-1) after fetching pages 1..k;
\* it raises exactly where iterating scrape_berita raises, on a page before
\* any such k.
C10_AllIsIteratedSingle ==
    endpoint = "all" =>
        /\ pc = "returned" =>
              /\ FirstEmpty(Len(getLog))
              /\ \A j \in 1..(Len(getLog) - 1) : ~SinglePage(j).raised
              /\ retval = ConcatSingle(Len(getLog) - 1)
        /\ pc = "raised" =>
              /\ SinglePage(Len(getLog)).raised
              /\ \A j \in 1..(Len(getLog) - 1) :
                    ~SinglePage(j).raised /\ ~SingleEmpty(j)
        /\ \A k \in 1..PageCap : FirstEmpty(k) => Len(getLog) <= k

\* pages 1 and 2 return articles, page 3 is empty: k = 3
C10_Witness ==
    /\ endpoint = "all" /\ pc = "returned"
    /\ FirstEmpty(3)
    /\ retval = SinglePage(1).value \o SinglePage(2).value
    /\ SinglePage(1).value # << >> /\ SinglePage(2).value # << >>

====
